---- MODULE Spec2Model ----
(***************************************************************************)
(* FrictionLab: the tick loop of App.tsx, its run controls and the         *)
(* parameter / friction handlers of Controls and Track.                    *)
(*                                                                         *)
(* Numbers are exact fixed-point integers:                                 *)
(*   coefficients            hundredths            (0.30 is 30)            *)
(*   GRAVITY                 hundredths of m/s^2   (9.81 is 981)           *)
(*   mass                    kg                                            *)
(*   normalForce             hundredths of N       (mass * GRAVITY)        *)
(*   every other force       1e-4 N                (coefficient * normal)  *)
(*   acceleration            1e-4 m/s^2            (force / mass)          *)
(*   simStep                 half seconds                                  *)
(*   velocity                1e-4 m/s^2 * 0.5 s  = 0.5e-4 m/s              *)
(*   position, distances     0.5e-4 m/s * 0.5 s  = 0.25e-4 m               *)
(*   timeElapsed, durations  tenths of a second  (one simStep is 5 tenths) *)
(* The inputs are chosen so that every division of the code is exact.      *)
(***************************************************************************)
EXTENDS Integers, FiniteSets, Sequences, TLC

\* ---------------------------------------------------------------- bounds
\* Largest step of one frame, in half seconds (simStep = deltaTime * 5).
MaxDt == 2
\* Frames are explored while the moving bodies have at most this much
\* timeElapsed (tenths of a second).
MaxTime == 40
\* The frames of a run followed to its end last a multiple of this many half
\* seconds.
LiveStep == 4
\* Start is explored while fewer than this many loops are alive (frames
\* pending plus updaters queued).
MaxFrames == 2

\* ------------------------------------------------------------- constants
GRAVITY == 981
IMPULSE_DURATION == 5
\* parseFloat of an empty or unparsable input
NaN == -1

Newtons(n) == n * 10000
Meters(m) == m * 40000

Surfaces == {"Ice", "Floor", "Rough"}

\* constants.ts SURFACES: coefficients and frictionRange in hundredths
SURFACES ==
  [s \in Surfaces |->
     CASE s = "Ice"   -> [staticFrictionCoeff |-> 20, kineticFrictionCoeff |-> 10,
                          frictionRange |-> <<10, 30>>]
       [] s = "Floor" -> [staticFrictionCoeff |-> 40, kineticFrictionCoeff |-> 30,
                          frictionRange |-> <<30, 60>>]
       [] s = "Rough" -> [staticFrictionCoeff |-> 70, kineticFrictionCoeff |-> 60,
                          frictionRange |-> <<60, 100>>]]

INITIAL_PARAMS ==
  [mass |-> 10, distance |-> Meters(500), appliedForce |-> Newtons(150),
   forceMode |-> "continuous", forceDuration |-> 50,
   forceDistanceLimit |-> Meters(100)]

ForceModes == {"continuous", "impulse", "timed", "distance"}

\* ----------------------------------------------------------------- state
VARIABLES
  params,          \* useState<SimulationParams>
  surfaceConfigs,  \* useState<SurfaceConfig[]>, keyed by surface type
  states,          \* useState<SimulationState[]>, keyed by id
  isRunning,       \* useState(false)
  isFinished,      \* useState(false)
  animationRef,    \* TRUE while the frame requested last is still pending
  loopEnv,         \* what the closure `loop` of the starting render captured
  explanation,     \* AIInsights: useState<string | null>(null)
  loading,         \* AIInsights: useState(false)
  request,         \* the promise of generatePhysicsExplanation last awaited:
                   \* "none", "pending", or the way it settled
  frames,          \* number of pending requestAnimationFrame callbacks of loop
  updates          \* updaters passed to setStates by loop and not yet run

vars == <<params, surfaceConfigs, states, isRunning, isFinished, animationRef, loopEnv,
          explanation, loading, request, frames, updates>>

\* the state of the AIInsights component; no handler of App writes it
insights == <<explanation, loading, request>>

\* JavaScript null, the explanation before and between requests
Null == "null"

\* AIInsights as mounted: no explanation, not loading, nothing awaited
InsightsInit ==
  /\ explanation = Null
  /\ loading = FALSE
  /\ request = "none"

\* a < b of JavaScript numbers: false as soon as one side is NaN
Lt(a, b) == a # NaN /\ b # NaN /\ a < b

\* ------------------------------------------------------ resetSimulation
InitialState(currentParams) ==
  [position |-> 0, velocity |-> 0, acceleration |-> 0, timeElapsed |-> 0,
   isFinished |-> FALSE, status |-> "static", frictionForce |-> 0,
   currentAppliedForce |-> currentParams.appliedForce]

InitialStates(currentParams) == [s \in Surfaces |-> InitialState(currentParams)]

\* ------------------------------------------------------------- the tick
\* faulty variant: continuous falls through to the impulse case
IsForceActive_FallThrough(p, state) ==
  CASE p.forceMode = "continuous" -> Lt(state.timeElapsed, IMPULSE_DURATION)
    [] p.forceMode = "impulse"    -> Lt(state.timeElapsed, IMPULSE_DURATION)
    [] p.forceMode = "timed"      -> Lt(state.timeElapsed, p.forceDuration)
    [] p.forceMode = "distance"   -> Lt(state.position, p.forceDistanceLimit)

\* faulty variant: the impulse window compared with <=
IsForceActive_Inclusive(p, state) ==
  CASE p.forceMode = "continuous" -> TRUE
    [] p.forceMode = "impulse"    -> ~Lt(IMPULSE_DURATION, state.timeElapsed)
    [] p.forceMode = "timed"      -> Lt(state.timeElapsed, p.forceDuration)
    [] p.forceMode = "distance"   -> Lt(state.position, p.forceDistanceLimit)

\* switch (params.forceMode) of loop
IsForceActive(p, state) ==
  CASE p.forceMode = "continuous" -> TRUE
    [] p.forceMode = "impulse"    -> Lt(state.timeElapsed, IMPULSE_DURATION)
    [] p.forceMode = "timed"      -> Lt(state.timeElapsed, p.forceDuration)
    [] p.forceMode = "distance"   -> Lt(state.position, p.forceDistanceLimit)

PushForce(p, state) == IF IsForceActive(p, state) THEN p.appliedForce ELSE 0

NormalForce(p) == p.mass * GRAVITY
\* faulty variant: the kinetic coefficient used for the static limit
MaxStaticFriction_Kinetic(surface, p) == surface.kineticFrictionCoeff * NormalForce(p)

MaxStaticFriction(surface, p) == surface.staticFrictionCoeff * NormalForce(p)
KineticFriction(surface, p) == surface.kineticFrictionCoeff * NormalForce(p)

\* faulty variant: breakaway at equality
BreaksAway_AtLimit(pushForce, maxStaticFriction) == pushForce >= maxStaticFriction

\* if (pushForce > maxStaticFriction)
BreaksAway(pushForce, maxStaticFriction) == pushForce > maxStaticFriction

\* if (newVel <= 0 && pushForce <= kineticFriction)
StopsMoving(newVel, pushForce, kineticFriction) ==
  newVel <= 0 /\ pushForce <= kineticFriction

\* faulty variant: the velocity is not snapped to 0
StoppedVelocity_Unclamped(newVel) == newVel

\* newVel = 0 of the stop branch
StoppedVelocity(newVel) == 0

\* faulty variant: a body that stops goes back to static
StoppedStatus_Static == "static"

\* newStatus = 'finished' of the stop branch
StoppedStatus == "finished"

\* faulty variant: the position is not clamped to the target
ClampPosition_None(newPos, distance) == newPos

\* if (newPos >= params.distance) newPos = params.distance
ClampPosition(newPos, distance) == IF newPos >= distance THEN distance ELSE newPos

\* faulty variant: the clock of a static body runs
StepStatic_ClockRuns(state, surface, p, simStep) ==
  LET pushForce == PushForce(p, state)
      moves == BreaksAway(pushForce, MaxStaticFriction(surface, p))
  IN [position |-> state.position,
      velocity |-> state.velocity,
      acceleration |-> 0,
      timeElapsed |-> state.timeElapsed + simStep * 5,
      isFinished |-> FALSE,
      status |-> IF moves THEN "moving" ELSE "static",
      frictionForce |-> IF moves THEN KineticFriction(surface, p) ELSE pushForce,
      currentAppliedForce |-> pushForce]

\* faulty variant: a stuck body reports the static limit as its friction
StepStatic_ReportsLimit(state, surface, p, simStep) ==
  LET pushForce == PushForce(p, state)
      moves == BreaksAway(pushForce, MaxStaticFriction(surface, p))
  IN [position |-> state.position,
      velocity |-> state.velocity,
      acceleration |-> 0,
      timeElapsed |-> state.timeElapsed,
      isFinished |-> FALSE,
      status |-> IF moves THEN "moving" ELSE "static",
      frictionForce |-> IF moves THEN KineticFriction(surface, p)
                                 ELSE MaxStaticFriction(surface, p),
      currentAppliedForce |-> pushForce]

\* faulty variant: the body already accelerates on the tick it breaks away
StepStatic_Accelerates(state, surface, p, simStep) ==
  LET pushForce == PushForce(p, state)
      moves == BreaksAway(pushForce, MaxStaticFriction(surface, p))
      acc == (pushForce - KineticFriction(surface, p)) \div p.mass
  IN [position |-> state.position,
      velocity |-> IF moves THEN state.velocity + acc * simStep ELSE state.velocity,
      acceleration |-> IF moves THEN acc ELSE 0,
      timeElapsed |-> state.timeElapsed,
      isFinished |-> FALSE,
      status |-> IF moves THEN "moving" ELSE "static",
      frictionForce |-> IF moves THEN KineticFriction(surface, p) ELSE pushForce,
      currentAppliedForce |-> pushForce]

\* the branch state.status === 'static'
StepStatic(state, surface, p, simStep) ==
  LET pushForce == PushForce(p, state)
      moves == BreaksAway(pushForce, MaxStaticFriction(surface, p))
  IN [position |-> state.position,
      velocity |-> state.velocity,
      acceleration |-> 0,
      timeElapsed |-> state.timeElapsed,
      isFinished |-> FALSE,
      status |-> IF moves THEN "moving" ELSE "static",
      frictionForce |-> IF moves THEN KineticFriction(surface, p) ELSE pushForce,
      currentAppliedForce |-> pushForce]

\* the branch state.status === 'moving'
StepMoving(state, surface, p, simStep) ==
  LET pushForce == PushForce(p, state)
      kineticFriction == KineticFriction(surface, p)
      netForce == pushForce - kineticFriction
      acc == netForce \div p.mass
      vel1 == state.velocity + acc * simStep
      stops == StopsMoving(vel1, pushForce, kineticFriction)
      newVel == IF stops THEN StoppedVelocity(vel1) ELSE vel1
      newAcc == IF stops THEN 0 ELSE acc
      pos1 == state.position + newVel * simStep
      newTime == state.timeElapsed + simStep * 5
      arrives == pos1 >= p.distance
      newStatus == IF arrives THEN "finished"
                   ELSE IF stops THEN StoppedStatus ELSE "moving"
  IN [position |-> ClampPosition(pos1, p.distance),
      velocity |-> newVel,
      acceleration |-> newAcc,
      timeElapsed |-> newTime,
      isFinished |-> newStatus = "finished",
      status |-> newStatus,
      frictionForce |-> kineticFriction,
      currentAppliedForce |-> pushForce]

\* faulty variant: no early return for a finished body
StepBody_NoEarlyReturn(state, surface, p, simStep) ==
  IF state.status = "static" THEN StepStatic(state, surface, p, simStep)
  ELSE IF state.status = "moving" THEN StepMoving(state, surface, p, simStep)
  ELSE [state EXCEPT !.acceleration = 0, !.frictionForce = 0,
                     !.isFinished = (state.status = "finished"),
                     !.currentAppliedForce = PushForce(p, state)]

\* the callback of prevStates.map in loop
StepBody(state, surface, p, simStep) ==
  IF state.isFinished THEN state
  ELSE IF state.status = "static" THEN StepStatic(state, surface, p, simStep)
  ELSE IF state.status = "moving" THEN StepMoving(state, surface, p, simStep)
  ELSE [state EXCEPT !.acceleration = 0, !.frictionForce = 0,
                     !.isFinished = (state.status = "finished"),
                     !.currentAppliedForce = PushForce(p, state)]

TickAll(prevStates, env, simStep) ==
  [s \in Surfaces |-> StepBody(prevStates[s], env.surfaceConfigs[s], env.params, simStep)]

\* the bound of the exploration: the moving bodies' clocks stay within MaxTime
WithinBounds(simStep) ==
  \A s \in Surfaces :
     states[s].status = "moving" => states[s].timeElapsed + simStep * 5 <= MaxTime

\* the value of loopEnv while no frame of a loop is pending
NoLoop == [isRunning |-> FALSE, params |-> INITIAL_PARAMS, surfaceConfigs |-> SURFACES]

\* One animation frame: loop(time) with simStep = (time - lastTimeRef) / 1000 * 5,
\* together with the render that runs its updater, no other handler in between.
\* loop reads params, surfaceConfigs and isRunning of the render that started it.
Loop(simStep) ==
  /\ animationRef
  /\ frames = 1
  /\ updates = <<>>
  /\ LET newStates == TickAll(states, loopEnv, simStep)
         currentlyMoving == \E s \in Surfaces : newStates[s].status = "moving"
     IN /\ states' = newStates
        /\ IF ~currentlyMoving /\ loopEnv.isRunning
             THEN /\ isFinished' = TRUE
                  /\ isRunning' = FALSE
                  /\ animationRef' = FALSE
                  /\ frames' = frames - 1
                  /\ loopEnv' = NoLoop
             ELSE /\ animationRef' = TRUE
                  /\ UNCHANGED <<isRunning, isFinished, loopEnv, frames>>
  /\ UNCHANGED <<params, surfaceConfigs, insights, updates>>

Tick == \E simStep \in 0..MaxDt : WithinBounds(simStep) /\ Loop(simStep)

\* ---------------------------------------------------------- run control
\* cancelAnimationFrame(animationRef.current): the frames still pending
\* when the one the ref holds, if it is pending, has been cancelled
Cancelled == IF animationRef THEN frames - 1 ELSE frames

\* setStates(initialStates) after the updaters in the queue: their results
\* are replaced, their side effects are still to come
Overridden(queue) == [i \in DOMAIN queue |-> [queue[i] EXCEPT !.overridden = TRUE]]

\* resetSimulation(currentParams), the pending frame cancelled
ResetTo_StatesOnly(currentParams) ==
  /\ states' = InitialStates(currentParams)
  /\ animationRef' = FALSE
  /\ frames' = Cancelled
  /\ updates' = Overridden(updates)
  /\ loopEnv' = IF Cancelled = 0 /\ updates = <<>> THEN NoLoop ELSE loopEnv
  /\ UNCHANGED <<isRunning, isFinished>>

ResetTo(currentParams) ==
  /\ states' = InitialStates(currentParams)
  /\ isRunning' = FALSE
  /\ isFinished' = FALSE
  /\ animationRef' = FALSE
  /\ frames' = Cancelled
  /\ updates' = Overridden(updates)
  /\ loopEnv' = IF Cancelled = 0 /\ updates = <<>> THEN NoLoop ELSE loopEnv

\* onReset: the button is rendered while isRunning || isFinished
Reset ==
  /\ isRunning \/ isFinished
  /\ ResetTo(params)
  /\ UNCHANGED <<params, surfaceConfigs, insights>>

\* handleStart / startLoop: the button is rendered while !isRunning. The loop
\* that is requested is the closure of the render the click happened in.
HandleStart ==
  /\ ~isRunning
  /\ frames + Len(updates) < MaxFrames
  /\ frames' = frames + 1
  /\ UNCHANGED updates
  /\ states' = IF isFinished THEN InitialStates(params) ELSE states
  /\ isRunning' = TRUE
  /\ isFinished' = FALSE
  /\ animationRef' = TRUE
  /\ loopEnv' = [isRunning |-> isRunning, params |-> params,
                 surfaceConfigs |-> surfaceConfigs]
  /\ UNCHANGED <<params, surfaceConfigs, insights>>

\* ------------------------------------------------------ Controls inputs
\* parseFloat(e.target.value) of the inputs, in the unit of the field
MassInputs == {NaN, 0, 1, 10, 2000}
ForceInputs == {NaN, Newtons(-1), 392400, Newtons(150), Newtons(2500)}
DurationInputs == {NaN, 0, 10}
DistanceInputs == {NaN, 0, Meters(1)}

\* onParamsChange: setParams(p); resetSimulation(p). Every input of Controls
\* is disabled while isRunning.
OnParamsChange_Enabled(newParams) ==
  /\ params' = newParams
  /\ ResetTo(newParams)
  /\ UNCHANGED <<surfaceConfigs, insights>>

\* onParamsChange = (p) => { setParams(p); resetSimulation(p); }, reached
\* only through inputs and buttons of Controls, all disabled={isRunning}
OnParamsChange(newParams) ==
  /\ ~isRunning
  /\ params' = newParams
  /\ ResetTo(newParams)
  /\ UNCHANGED <<surfaceConfigs, insights>>

ClampMass(val) ==
  LET v1 == IF val = NaN THEN 1 ELSE val
      v2 == IF v1 > 1000 THEN 1000 ELSE v1
  IN IF v2 < 1 THEN 1 ELSE v2

ClampForce(val) ==
  LET v1 == IF val = NaN THEN 0 ELSE val
      v2 == IF v1 > Newtons(2000) THEN Newtons(2000) ELSE v1
  IN IF v2 < 0 THEN 0 ELSE v2

\* if (val < 0.1) val = 0.1
ClampDuration(val) == IF Lt(val, 1) THEN 1 ELSE val

\* if (val < 1) val = 1
ClampDistance(val) == IF Lt(val, Meters(1)) THEN Meters(1) ELSE val

HandleMassChange ==
  \E val \in MassInputs : OnParamsChange([params EXCEPT !.mass = ClampMass(val)])

HandleForceChange ==
  \E val \in ForceInputs :
     OnParamsChange([params EXCEPT !.appliedForce = ClampForce(val)])

HandleModeChange ==
  \E mode \in ForceModes : OnParamsChange([params EXCEPT !.forceMode = mode])

\* the duration input is rendered in timed mode only
HandleDurationChange ==
  /\ params.forceMode = "timed"
  /\ \E val \in DurationInputs :
        OnParamsChange([params EXCEPT !.forceDuration = ClampDuration(val)])

\* the distance input is rendered in distance mode only
HandleDistanceChange ==
  /\ params.forceMode = "distance"
  /\ \E val \in DistanceInputs :
        OnParamsChange([params EXCEPT !.forceDistanceLimit = ClampDistance(val)])

\* ------------------------------------------------------- Track slider
\* faulty variant: a slider that is not limited to the frictionRange
SliderValues_Unlimited(surface) ==
  {surface.frictionRange[1] - 5, surface.frictionRange[1],
   surface.frictionRange[2], surface.frictionRange[2] + 5}

\* the values the range input can deliver: min <= value <= max, step 0.01
SliderValues(surface) == {surface.frictionRange[1], surface.frictionRange[2]}

\* faulty variant: the static coefficient is set to the kinetic one
StaticFor_Same(newKinetic) == newKinetic

\* parseFloat((newKinetic + 0.1).toFixed(2)), on hundredths
StaticFor(newKinetic) == newKinetic + 10

\* handleFrictionChange(type, newKinetic), then the effect on
\* [surfaceConfigs]: if (!isRunning && !isFinished) resetSimulation().
FrictionChange(type, newKinetic) ==
  /\ surfaceConfigs' =
       [surfaceConfigs EXCEPT ![type].kineticFrictionCoeff = newKinetic,
                              ![type].staticFrictionCoeff = StaticFor(newKinetic)]
  /\ IF ~isRunning /\ ~isFinished
       THEN ResetTo(params)
       ELSE UNCHANGED <<states, isRunning, isFinished, animationRef, loopEnv,
                        frames, updates>>
  /\ UNCHANGED <<params, insights>>

\* the slider of a Track: onFrictionChange(surface.type,
\* parseFloat(e.target.value)); it is disabled while isRunning (readOnly).
HandleFrictionChange ==
  /\ ~isRunning
  /\ \E type \in Surfaces :
       \E newKinetic \in SliderValues(surfaceConfigs[type]) :
          FrictionChange(type, newKinetic)

Init ==
  /\ params = INITIAL_PARAMS
  /\ surfaceConfigs = SURFACES
  /\ states = InitialStates(INITIAL_PARAMS)
  /\ isRunning = FALSE
  /\ isFinished = FALSE
  /\ animationRef = FALSE
  /\ loopEnv = NoLoop
  /\ frames = 0
  /\ updates = <<>>
  /\ InsightsInit

Next ==
  \/ Tick
  \/ Reset
  \/ HandleStart
  \/ HandleMassChange
  \/ HandleForceChange
  \/ HandleModeChange
  \/ HandleDurationChange
  \/ HandleDistanceChange
  \/ HandleFrictionChange

Spec == Init /\ [][Next]_vars

\* ------------------------------------------------- one run to its end
\* Parameters the handlers above can set, for runs that are followed until
\* every body has come to rest or arrived.
LiveParams ==
  {[INITIAL_PARAMS EXCEPT !.mass = m, !.appliedForce = f, !.forceMode = mode,
                          !.forceDuration = d] :
     m \in {1, 10}, f \in {392400, Newtons(150)},
     mode \in {"continuous", "impulse", "timed"}, d \in {1, 10, 50}}

LiveInit ==
  /\ params \in LiveParams
  /\ surfaceConfigs = SURFACES
  /\ states = InitialStates(params)
  /\ isRunning = FALSE
  /\ isFinished = FALSE
  /\ animationRef = FALSE
  /\ loopEnv = NoLoop
  /\ frames = 0
  /\ updates = <<>>
  /\ InsightsInit

\* a frame with a positive step; every frame requests the next one
LiveTick == \E k \in 1..MaxDt : Loop(k * LiveStep)

LiveNext == HandleStart \/ LiveTick

LiveSpec == LiveInit /\ [][LiveNext]_vars /\ WF_vars(LiveTick)

\* ------------------------------------------- frames and renders apart
\* loop calls setStates with an updater; React queues the updater and runs
\* it when it next renders the component. The updater is where loop
\* requests the next frame, so a click handled between the frame callback
\* and that render runs before the request is made.
RECURSIVE QueuedSteps(_)
QueuedSteps(queue) ==
  IF queue = <<>> THEN 0 ELSE Head(queue).simStep + QueuedSteps(Tail(queue))

\* the frame callback up to setStates(updater)
FrameCallback(simStep) ==
  /\ frames > 0
  /\ WithinBounds(QueuedSteps(updates) + simStep)
  /\ frames' = frames - 1
  /\ animationRef' = (animationRef /\ frames > 1)
  /\ updates' = Append(updates, [simStep |-> simStep, overridden |-> FALSE])
  /\ UNCHANGED <<params, surfaceConfigs, states, isRunning, isFinished, loopEnv,
                 insights>>

Frame == \E simStep \in 0..MaxDt : FrameCallback(simStep)

\* the states after the queued updaters, in the order they were queued
RECURSIVE RunUpdates(_, _)
RunUpdates(queue, prevStates) ==
  IF queue = <<>> THEN prevStates
  ELSE RunUpdates(Tail(queue),
                  IF Head(queue).overridden THEN prevStates
                  ELSE TickAll(prevStates, loopEnv, Head(queue).simStep))

\* The render that runs the queued updaters. The isRunning loop captured
\* is false, so every updater takes the else of the stop condition:
\* animationRef.current = requestAnimationFrame(loop).
Render ==
  /\ updates # <<>>
  /\ ~loopEnv.isRunning
  /\ states' = RunUpdates(updates, states)
  /\ frames' = frames + Len(updates)
  /\ animationRef' = TRUE
  /\ updates' = <<>>
  /\ UNCHANGED <<params, surfaceConfigs, isRunning, isFinished, loopEnv, insights>>

\* a move of a slider that leaves no loop behind: the reset of the
\* surfaceConfigs effect cancels the one frame that is pending, if any
SliderBetweenFrames ==
  /\ Cancelled = 0
  /\ updates = <<>>
  /\ HandleFrictionChange

RaceNext ==
  \/ HandleStart
  \/ Reset
  \/ Frame
  \/ Render
  \/ SliderBetweenFrames

RaceSpec == Init /\ [][RaceNext]_vars

\* ------------------------------------- handleFrictionChange on its own
\* Values onFrictionChange can be called with, in hundredths: below, inside
\* and above the frictionRange of each surface.
KineticInputs == {5, 10, 20, 30, 45, 60, 100, 110}

\* a call of the handler App passes to Track as onFrictionChange
CallFrictionChange ==
  \E type \in Surfaces : \E newKinetic \in KineticInputs :
     FrictionChange(type, newKinetic)

HandlerSpec == Init /\ [][CallFrictionChange]_vars

\* ---------------------------------------------------------- AIInsights
\* How a call of generatePhysicsExplanation goes: no API_KEY in the
\* environment, a response with text, a response without text, or a
\* failure of ai.models.generateContent.
Outcomes == {"missingKey", "text", "empty", "error"}

\* response.text of a successful call, whatever its wording
GeneratedText == "generated"

\* generatePhysicsExplanation: how its promise settles
GeneratePhysicsExplanation(outcome) ==
  CASE outcome = "missingKey" -> [settled |-> "rejected", value |-> "API Key not found"]
    [] outcome = "text" -> [settled |-> "fulfilled", value |-> GeneratedText]
    [] outcome = "empty" -> [settled |-> "fulfilled", value |-> "No explanation generated."]
    [] outcome = "error" ->
         [settled |-> "fulfilled",
          value |-> "Failed to generate explanation. Please check your API key and try again."]

appVars == <<params, surfaceConfigs, states, isRunning, isFinished, animationRef, loopEnv,
            frames, updates>>

\* handleGenerate up to the await; the button is rendered while there is
\* no explanation and is disabled while loading
HandleGenerate ==
  /\ explanation = Null
  /\ ~loading
  /\ loading' = TRUE
  /\ request' = "pending"
  /\ UNCHANGED <<explanation, appVars>>

\* faulty variant: handleGenerate without its catch block
Settles_NoCatch(outcome) ==
  /\ request = "pending"
  /\ LET promise == GeneratePhysicsExplanation(outcome)
     IN explanation' = IF promise.settled = "fulfilled"
                         THEN promise.value
                         ELSE explanation
  /\ loading' = FALSE
  /\ request' = outcome
  /\ UNCHANGED appVars

\* handleGenerate from the await on: try / catch / finally
Settles(outcome) ==
  /\ request = "pending"
  /\ LET promise == GeneratePhysicsExplanation(outcome)
     IN explanation' = IF promise.settled = "fulfilled"
                         THEN promise.value
                         ELSE "Sorry, I couldn't generate an explanation at this time."
  /\ loading' = FALSE
  /\ request' = outcome
  /\ UNCHANGED appVars

Settle == \E outcome \in Outcomes : Settles(outcome)

\* "Close Explanation": setExplanation(null)
CloseExplanation ==
  /\ explanation # Null
  /\ explanation' = Null
  /\ UNCHANGED <<loading, request, appVars>>

\* The component on its own, mounted with canGenerate = true, beside the
\* frames of a run. The promise of the remote call settles eventually.
InsightsNext ==
  \/ HandleStart
  \/ LiveTick
  \/ HandleGenerate
  \/ Settle
  \/ CloseExplanation

InsightsSpec == LiveInit /\ [][InsightsNext]_vars /\ WF_vars(Settle)

\* ------------------------------------------------------------- results
\* finalTime of a body that is not finished
Infinity == -2

\* faulty variant: the elapsed time reported whether finished or not
ResultOf_TimeAlways(s) ==
  [surface |-> s,
   finalTime |-> states[s].timeElapsed,
   maxVelocity |-> states[s].velocity,
   didMove |-> states[s].position > 0,
   staticFrictionLimit |-> surfaceConfigs[s].staticFrictionCoeff * NormalForce(params),
   appliedForce |-> params.appliedForce,
   forceMode |-> params.forceMode]

\* one element of results, computed on every render from the current
\* states, surfaceConfigs and params
ResultOf(s) ==
  [surface |-> s,
   finalTime |-> IF states[s].isFinished THEN states[s].timeElapsed ELSE Infinity,
   maxVelocity |-> states[s].velocity,
   didMove |-> states[s].position > 0,
   staticFrictionLimit |-> surfaceConfigs[s].staticFrictionCoeff * NormalForce(params),
   appliedForce |-> params.appliedForce,
   forceMode |-> params.forceMode]

Results == [s \in Surfaces |-> ResultOf(s)]

\* ResultsChart: chartData of one result. time in hundredths of a second
\* (toFixed(2) of tenths), velocity in hundredths of a m/s (toFixed(2) of
\* 0.5e-4 m/s), staticLimit in tenths of a newton (toFixed(1) of 1e-4 N).
ChartData(r) ==
  [name |-> r.surface,
   time |-> IF r.didMove
              THEN (IF r.finalTime = Infinity THEN 0 ELSE r.finalTime * 10)
              ELSE 0,
   velocity |-> IF r.didMove THEN (r.maxVelocity + 100) \div 200 ELSE 0,
   staticLimit |-> (r.staticFrictionLimit + 500) \div 1000]

\* ================================================================ claims
\* the static-friction ceiling of a body: staticFrictionCoeff * mass * 9.81
Ceiling(s) == surfaceConfigs[s].staticFrictionCoeff * params.mass * 981

\* C1: after any sequence of ticks (dt >= 0), resets and parameter edits,
\* every body's velocity is >= 0.
C1_VelocityNonNegative == \A s \in Surfaces : states[s].velocity >= 0

\* a body that friction has halted before the target
C1_Witness ==
  \E s \in Surfaces :
     /\ states[s].status = "finished"
     /\ states[s].position < params.distance
     /\ states[s].velocity = 0
     /\ states[s].timeElapsed > 0

\* C2: within a run a body's position never decreases from one tick to the
\* next and never exceeds params.distance, also when a step overshoots.
C2_PositionMonotoneBounded ==
  /\ [](\A s \in Surfaces :
          states[s].position >= 0 /\ states[s].position <= params.distance)
  /\ [][Tick => \A s \in Surfaces :
                   /\ states'[s].position >= states[s].position
                   /\ states'[s].position <= params.distance]_vars

\* a body that arrived with a last step longer than the whole track
C2_Witness ==
  \E s \in Surfaces :
     /\ states[s].status = "finished"
     /\ states[s].position = params.distance
     /\ states[s].velocity > params.distance

\* C3: once a body is finished, every later tick of the run leaves all of
\* its fields unchanged.
C3_FinishedFrozen ==
  [][Tick => \A s \in Surfaces :
               states[s].status = "finished" => states'[s] = states[s]]_vars

\* a finished body while another body has been ticked further
C3_Witness ==
  \E s, t \in Surfaces :
     /\ states[s].status = "finished"
     /\ states[t].status = "moving"
     /\ states[t].timeElapsed > states[s].timeElapsed

\* C4: a static body becomes moving on a tick only if the effective applied
\* force of that tick is strictly greater than staticFrictionCoeff * mass *
\* 9.81; at equality it stays static.
C4_StrictBreakaway ==
  [][Tick => \A s \in Surfaces :
               states[s].status = "static" =>
                 /\ states'[s].status = "moving" =>
                      states'[s].currentAppliedForce > Ceiling(s)
                 /\ states'[s].currentAppliedForce = Ceiling(s) =>
                      states'[s].status = "static"]_vars

\* a body pushed with exactly its static limit, after a tick: still static,
\* friction balancing the push
C4_Witness ==
  \E s \in Surfaces :
     /\ states[s].status = "static"
     /\ params.appliedForce = Ceiling(s)
     /\ states[s].currentAppliedForce = Ceiling(s)
     /\ states[s].frictionForce = Ceiling(s)

\* C5: the run is reported complete (isFinished) if and only if every body's
\* status is finished.
C5_CompleteIffAllFinished ==
  isFinished <=> \A s \in Surfaces : states[s].status = "finished"

\* C6: within a run a status only changes static -> moving or
\* moving -> finished.
C6_StatusOrder ==
  [][Tick => \A s \in Surfaces :
               \/ states'[s].status = states[s].status
               \/ states[s].status = "static" /\ states'[s].status = "moving"
               \/ states[s].status = "moving" /\ states'[s].status = "finished"]_vars

\* a body halted by friction next to one that is still static
C6_Witness ==
  \E s, t \in Surfaces :
     /\ states[s].status = "finished"
     /\ states[s].position < params.distance
     /\ states[t].status = "static"

\* C7: in continuous mode a body whose applied force is at most its static
\* ceiling stays static with position 0 and timeElapsed 0 after any number of
\* ticks.
C7_StaysStatic ==
  \A s \in Surfaces :
     (params.forceMode = "continuous" /\ params.appliedForce <= Ceiling(s)) =>
        /\ states[s].status = "static"
        /\ states[s].position = 0
        /\ states[s].timeElapsed = 0

\* a pushed body below its ceiling after several ticks of the run
C7_Witness ==
  \E s, t \in Surfaces :
     /\ params.forceMode = "continuous"
     /\ params.appliedForce > 0
     /\ params.appliedForce <= Ceiling(s)
     /\ states[s].frictionForce = params.appliedForce
     /\ states[t].timeElapsed >= 20

\* C8: on every tick the push is active exactly when: continuous - always;
\* impulse - timeElapsed < 0.5; timed - timeElapsed < forceDuration;
\* distance - position < forceDistanceLimit, on the state at the start of the
\* tick; currentAppliedForce is params.appliedForce when active, else 0.
C8_ForceModeTable ==
  [][Tick => \A s \in Surfaces :
               states[s].status # "finished" =>
                 states'[s].currentAppliedForce =
                   IF \/ params.forceMode = "continuous"
                      \/ params.forceMode = "impulse" /\ states[s].timeElapsed < 5
                      \/ /\ params.forceMode = "timed"
                         /\ params.forceDuration # NaN
                         /\ states[s].timeElapsed < params.forceDuration
                      \/ /\ params.forceMode = "distance"
                         /\ params.forceDistanceLimit # NaN
                         /\ states[s].position < params.forceDistanceLimit
                   THEN params.appliedForce ELSE 0]_vars

\* an impulse that ended: the body moves on without push
C8_Witness ==
  \E s \in Surfaces :
     /\ params.forceMode = "impulse"
     /\ params.appliedForce > 0
     /\ states[s].status = "moving"
     /\ states[s].timeElapsed >= 5
     /\ states[s].currentAppliedForce = 0

\* C9: in continuous mode with appliedForce strictly above the static ceiling
\* and steps dt > 0, the body becomes moving on the first tick, its velocity
\* strictly increases on every tick while it is moving, and it eventually
\* becomes finished with position equal to the target distance.
C9_ContinuousArrives ==
  /\ [][LiveTick => \A s \in Surfaces :
          (params.forceMode = "continuous" /\ params.appliedForce > Ceiling(s)) =>
             /\ states[s].status = "static" => states'[s].status = "moving"
             /\ states[s].status = "moving" =>
                  states'[s].velocity > states[s].velocity]_vars
  /\ \A s \in Surfaces :
        (isRunning /\ params.forceMode = "continuous"
           /\ params.appliedForce > Ceiling(s))
        ~> (states[s].status = "finished" /\ states[s].position = params.distance)

\* a body that arrived under a continuous push next to one that never moved
C9_Witness ==
  \E s, t \in Surfaces :
     /\ params.forceMode = "continuous"
     /\ params.appliedForce > Ceiling(s)
     /\ states[s].status = "finished"
     /\ states[s].position = params.distance
     /\ states[s].timeElapsed >= 40
     /\ states[t].status = "static"

\* the push of a timed or impulse run has expired for body s
Expired(s) ==
  \/ params.forceMode = "impulse" /\ states[s].timeElapsed >= 5
  \/ /\ params.forceMode = "timed"
     /\ params.forceDuration # NaN
     /\ states[s].timeElapsed >= params.forceDuration

\* C10 as stated: in timed or impulse mode, for a body that broke away and
\* whose push expired before the target, every tick after expiry lowers the
\* velocity and the final position is strictly greater than the position
\* when the push expired. The first tick after expiry is the one whose
\* previous tick still pushed (currentAppliedForce > 0).
C10_FinalPositionStrict ==
  [][LiveTick => \A s \in Surfaces :
        (states[s].status = "moving" /\ Expired(s)) =>
           /\ states'[s].velocity < states[s].velocity
           /\ (/\ states[s].currentAppliedForce > 0
               /\ states'[s].status = "finished"
               /\ states'[s].position < params.distance)
              => states'[s].position > states[s].position]_vars

\* C10 amended: every tick (dt > 0) after expiry lowers the velocity; the
\* position does not decrease, it grows on every such tick that leaves the
\* body moving and stays where it is on the tick that halts the body; the
\* body eventually becomes finished, with velocity 0 and a position below
\* the target unless it arrived; timeElapsed changes only on ticks that
\* start with the body moving.
C10_CoastsToRest ==
  /\ [][LiveTick => \A s \in Surfaces :
          /\ (states[s].status = "moving" /\ Expired(s)) =>
                /\ states'[s].velocity < states[s].velocity
                /\ states'[s].position >= states[s].position
                /\ states'[s].status = "moving" =>
                     states'[s].position > states[s].position
                /\ (states'[s].status = "finished"
                      /\ states'[s].position < params.distance) =>
                     /\ states'[s].velocity = 0
                     /\ states'[s].position = states[s].position
          /\ states'[s].timeElapsed # states[s].timeElapsed =>
                states[s].status = "moving"]_vars
  /\ \A s \in Surfaces :
        (states[s].status = "moving" /\ Expired(s))
        ~> /\ states[s].status = "finished"
           /\ \/ states[s].position = params.distance
              \/ states[s].velocity = 0 /\ states[s].position < params.distance

\* a body that coasted for more than one tick after its push expired and was
\* then halted by friction before the target
C10_Witness ==
  \E s \in Surfaces :
     /\ params.forceMode \in {"impulse", "timed"}
     /\ Expired(s)
     /\ states[s].status = "finished"
     /\ states[s].velocity = 0
     /\ states[s].position > 0
     /\ states[s].position < params.distance
     /\ states[s].currentAppliedForce = 0
     /\ states[s].timeElapsed >= 120

\* C11: an adjustment of a surface's kinetic coefficient to a value outside
\* its frictionRange fails and leaves the surface's kinetic and static
\* coefficients as they were.
C11_OutOfRangeRejected ==
  [][\A type \in Surfaces : \A v \in KineticInputs :
        (/\ FrictionChange(type, v)
         /\ \/ v < surfaceConfigs[type].frictionRange[1]
            \/ v > surfaceConfigs[type].frictionRange[2])
        => /\ surfaceConfigs'[type].kineticFrictionCoeff =
                surfaceConfigs[type].kineticFrictionCoeff
           /\ surfaceConfigs'[type].staticFrictionCoeff =
                surfaceConfigs[type].staticFrictionCoeff]_vars

\* C12: after an accepted adjustment of a surface's kinetic coefficient to v
\* the surface has kineticFrictionCoeff = v and staticFrictionCoeff = v + 0.1
\* (2 decimals); the other surfaces, every frictionRange and the set of
\* surfaces are unchanged.
C12_AdjustmentEffect ==
  [][surfaceConfigs' # surfaceConfigs =>
       \A type \in Surfaces : \A v \in SliderValues(surfaceConfigs[type]) :
          FrictionChange(type, v)
            => /\ surfaceConfigs'[type].kineticFrictionCoeff = v
               /\ surfaceConfigs'[type].staticFrictionCoeff = v + 10
               /\ surfaceConfigs'[type].frictionRange = surfaceConfigs[type].frictionRange
               /\ DOMAIN surfaceConfigs' = DOMAIN surfaceConfigs
               /\ \A o \in Surfaces \ {type} : surfaceConfigs'[o] = surfaceConfigs[o]]_vars

\* Ice moved to the top of its range, the other surfaces as configured
C12_Witness ==
  /\ surfaceConfigs["Ice"].kineticFrictionCoeff = 30
  /\ surfaceConfigs["Ice"].staticFrictionCoeff = 40
  /\ surfaceConfigs["Floor"] = SURFACES["Floor"]
  /\ surfaceConfigs["Rough"] = SURFACES["Rough"]

\* C13: in every reachable state every surface's kineticFrictionCoeff lies
\* within its own frictionRange, bounds included.
C13_KineticInRange ==
  \A s \in Surfaces :
     /\ surfaceConfigs[s].frictionRange[1] <= surfaceConfigs[s].kineticFrictionCoeff
     /\ surfaceConfigs[s].kineticFrictionCoeff <= surfaceConfigs[s].frictionRange[2]

\* every slider has been moved to the upper end of its range
C13_Witness ==
  \A s \in Surfaces :
     /\ surfaceConfigs[s].kineticFrictionCoeff = surfaceConfigs[s].frictionRange[2]
     /\ surfaceConfigs[s].kineticFrictionCoeff # SURFACES[s].kineticFrictionCoeff

\* C14: while a run is in progress (isRunning) an attempt to change params
\* (mass, applied force, force mode, force duration, force distance limit)
\* is rejected: params and all body states are left unchanged by it (the
\* body states of a run in progress change by a frame or a reset only).
C14_ParamsLockedWhileRunning ==
  /\ [][isRunning => params' = params]_vars
  /\ [][(isRunning /\ states' # states) => (Tick \/ Reset)]_vars

\* a run in progress, started after the parameters had been edited
C14_Witness ==
  /\ isRunning
  /\ params # INITIAL_PARAMS
  /\ \E s \in Surfaces : states[s].status = "moving" /\ states[s].position > 0

\* C15: surface friction coefficients never change while any body is
\* moving: a friction adjustment takes effect only when no run is in
\* progress.
C15_FrictionLockedWhileMoving ==
  /\ [][(\E s \in Surfaces : states[s].status = "moving")
          => surfaceConfigs' = surfaceConfigs]_vars
  /\ [][surfaceConfigs' # surfaceConfigs => ~isRunning]_vars

\* C16: right after a reset and right after any accepted parameter change
\* there is exactly one body state per surface, each with position,
\* velocity, acceleration and timeElapsed 0, status static and friction
\* force 0, and isRunning and isFinished are both false.
C16_FreshAfterReset ==
  [][(Reset \/ HandleMassChange \/ HandleForceChange \/ HandleModeChange
        \/ HandleDurationChange \/ HandleDistanceChange)
      => /\ DOMAIN states' = DOMAIN surfaceConfigs'
         /\ \A s \in DOMAIN states' :
               /\ states'[s].position = 0
               /\ states'[s].velocity = 0
               /\ states'[s].acceleration = 0
               /\ states'[s].timeElapsed = 0
               /\ states'[s].status = "static"
               /\ states'[s].frictionForce = 0
         /\ ~isRunning'
         /\ ~isFinished']_vars

\* the bodies are back at the start, with parameters other than the initial
C16_Witness ==
  /\ params.mass # INITIAL_PARAMS.mass
  /\ params.forceMode # INITIAL_PARAMS.forceMode
  /\ ~isRunning /\ ~isFinished
  /\ \A s \in Surfaces : states[s].position = 0 /\ states[s].status = "static"

C18_DerivedResult ==
  \A s \in Surfaces :
     /\ Results[s].finalTime =
          IF states[s].status = "finished" THEN states[s].timeElapsed ELSE Infinity
     /\ Results[s].maxVelocity = states[s].velocity
     /\ Results[s].didMove = (states[s].position > 0)
     /\ Results[s].staticFrictionLimit =
          surfaceConfigs[s].staticFrictionCoeff * params.mass * 981

\* one body has arrived, another is under way, on adjusted surfaces
C18_Witness ==
  \E s, t \in Surfaces :
     /\ states[s].status = "finished" /\ Results[s].finalTime > 0
     /\ states[t].status = "moving" /\ states[t].position > 0
     /\ Results[t].finalTime = Infinity
     /\ surfaceConfigs[s] # SURFACES[s]

\* C19: the chart represents a did-not-finish result by a value distinct
\* from a finish time of 0: a body that did not finish and a body whose
\* time is 0 are never charted with the same time value.
C19_DidNotFinishDistinct ==
  \A s \in Surfaces :
     Results[s].finalTime = Infinity
       => ChartData(Results[s]).time #
            ChartData([Results[s] EXCEPT !.finalTime = 0]).time

C21_ParamsFinite ==
  /\ params.mass # NaN /\ params.mass >= 1 /\ params.mass <= 1000
  /\ params.appliedForce # NaN
  /\ params.appliedForce >= 0 /\ params.appliedForce <= 2000 * 10000
  /\ params.forceDuration # NaN /\ params.forceDuration > 0
  /\ params.forceDistanceLimit # NaN /\ params.forceDistanceLimit > 0

\* C22: on the tick where a moving body is halted by friction, velocity
\* and acceleration are set to 0, the status becomes finished, and the tick
\* adds nothing to position or to timeElapsed.
C22_HaltingTick ==
  [][Tick => \A s \in Surfaces :
       (/\ states[s].status = "moving"
        /\ states'[s].status = "finished"
        /\ states'[s].position < params.distance)
       => /\ states'[s].velocity = 0
          /\ states'[s].acceleration = 0
          /\ states'[s].position = states[s].position
          /\ states'[s].timeElapsed = states[s].timeElapsed]_vars

\* C23: a body's timeElapsed never decreases during a run and changes only
\* on ticks that start with the body moving: a tick that starts with the
\* body static, the breakaway tick included, leaves it unchanged.
C23_ClockOnlyWhileMoving ==
  [][(isRunning /\ isRunning') => \A s \in Surfaces :
       /\ states'[s].timeElapsed >= states[s].timeElapsed
       /\ states[s].status = "static" => states'[s].timeElapsed = states[s].timeElapsed
       /\ states'[s].timeElapsed # states[s].timeElapsed
            => (Tick /\ states[s].status = "moving")]_vars

\* one body has just broken away or is stuck with its clock at 0 while the
\* clock of another body has advanced
C23_Witness ==
  \E s, t \in Surfaces :
     /\ states[s].status = "static" /\ states[s].timeElapsed = 0
     /\ states[t].status = "moving" /\ states[t].timeElapsed > 0

\* C24: in every state where a body's status is finished, whether it
\* arrived at the target or was halted by friction, its frictionForce is 0.
C24_FinishedNoFriction ==
  \A s \in Surfaces : states[s].status = "finished" => states[s].frictionForce = 0

\* C25: after a tick that leaves a body static its frictionForce equals the
\* effective applied force of that tick (0 when the push is inactive or
\* zero) and does not exceed the static-friction ceiling; after a tick that
\* leaves a body moving its frictionForce is kineticFrictionCoeff * mass *
\* 9.81.
C25_ReportedFriction ==
  [][Tick => \A s \in Surfaces :
       /\ states'[s].status = "static"
            => /\ states'[s].frictionForce = states'[s].currentAppliedForce
               /\ states'[s].currentAppliedForce \in {0, params.appliedForce}
               /\ states'[s].frictionForce <= Ceiling(s)
       /\ states'[s].status = "moving"
            => states'[s].frictionForce =
                 surfaceConfigs[s].kineticFrictionCoeff * params.mass * 981]_vars

\* a stuck body balancing a positive push next to a body that slides
C25_Witness ==
  \E s, t \in Surfaces :
     /\ states[s].status = "static"
     /\ states[s].frictionForce > 0
     /\ states[s].frictionForce < Ceiling(s)
     /\ states[t].status = "moving"
     /\ states[t].position > 0
     /\ states[t].frictionForce =
          surfaceConfigs[t].kineticFrictionCoeff * params.mass * 981

\* C26: the tick on which a body breaks away changes only its status, its
\* frictionForce (to the kinetic friction force) and its
\* currentAppliedForce: position, velocity and timeElapsed stay 0 and the
\* acceleration is reported as 0, whatever the step of that tick.
C26_BreakawayTick ==
  [][Tick => \A s \in Surfaces :
       (states[s].status = "static" /\ states'[s].status = "moving")
       => /\ states'[s].position = 0
          /\ states'[s].velocity = 0
          /\ states'[s].timeElapsed = 0
          /\ states'[s].acceleration = 0
          /\ states'[s].isFinished = states[s].isFinished
          /\ states'[s].frictionForce =
               surfaceConfigs[s].kineticFrictionCoeff * params.mass * 981]_vars

\* a body right after its breakaway tick
C26_Witness ==
  \E s \in Surfaces :
     /\ states[s].status = "moving"
     /\ states[s].position = 0 /\ states[s].velocity = 0
     /\ states[s].timeElapsed = 0 /\ states[s].acceleration = 0
     /\ states[s].frictionForce > 0

C29_RunStopsTicking ==
  /\ [][Tick => loopEnv.isRunning]_vars
  /\ [][(Tick /\ \A s \in Surfaces : states'[s].status # "moving")
          => (isFinished' /\ ~isRunning' /\ ~animationRef')]_vars

\* C28: at most one tick loop is active at any time: there is never more
\* than one pending animation-frame callback for loop, for any
\* interleaving of Start, Restart, Reset and frame callbacks.
C28_OneLoop == frames <= 1

\* C30: after resetSimulation is invoked while a run is in progress no
\* later tick callback modifies the body states: they stay in the initial
\* state (position 0, status static) and isRunning stays false until the
\* next Start.
C30_ResetStopsTicks ==
  /\ []((~isRunning /\ ~isFinished) =>
          \A s \in Surfaces : states[s].position = 0 /\ states[s].status = "static")
  /\ [][(~isRunning /\ isRunning') => HandleStart]_vars
====
